---- MODULE Spec2Model ----
(***************************************************************************)
(* Inventory reservation API: items, reservations (holds), confirmation,   *)
(* cancellation and the expiry sweep, modelled as request handlers that    *)
(* run concurrently against one relational store.  Every store call of a   *)
(* handler is one atomic step; the synchronous code that follows a store   *)
(* call (branching, reading the clock for the next call) belongs to the    *)
(* same step.  The clock advances between steps.                           *)
(***************************************************************************)
EXTENDS Integers, Naturals, Sequences, FiniteSets, TLC

\* ------------------------------------------------------------------ bounds
MaxTime  == 2      \* the clock runs from 0 to MaxTime (one tick = one minute)
MaxItems == 1      \* item ids 1..MaxItems; at most MaxItems rows in items
MaxRes   == 2      \* reservation ids 1..MaxRes; at most MaxRes rows
MaxQty   == 2      \* quantities 1..MaxQty

\* ------------------------------------------------------- program constants
RESERVATION_EXPIRY_MINUTES == 1
NULL == -1         \* a NULL timestamp column

Procs == {"h1", "h2"}          \* concurrently running request handlers

PENDING   == "PENDING"
CONFIRMED == "CONFIRMED"
CANCELLED == "CANCELLED"
EXPIRED   == "EXPIRED"
ReservationStatus == {PENDING, CONFIRMED, CANCELLED, EXPIRED}

\* ErrorCode -> HTTP status, as passed to AppError at each throw site
StatusCode(code) ==
  CASE code = "OK"                    -> 200
    [] code = "CREATED"               -> 201
    [] code = "ITEM_NOT_FOUND"        -> 404
    [] code = "RESERVATION_NOT_FOUND" -> 404
    [] code = "INSUFFICIENT_QUANTITY" -> 409
    [] code = "RESERVATION_EXPIRED"   -> 409
    [] code = "RESERVATION_CANCELLED" -> 409
    [] code = "RESERVATION_CONFIRMED" -> 409
    [] OTHER                          -> 500

VARIABLES
  now,            \* the wall clock, in minutes
  items,          \* table items: sequence of rows, id = index
  reservations,   \* table reservations: sequence of rows, id = index
  pc,             \* pc[p]: the store call handler p is about to make
  req,            \* req[p]: the handler's local variables
  response,       \* what the step just taken returned to its caller, if it returned
  prev            \* history: the tables and pc as they were before the step just taken

vars == <<now, items, reservations, pc, req, response, prev>>

\* ------------------------------------------------------------------ helpers
ItemIds        == 1..MaxItems
ReservationIds == 1..MaxRes
Quantities     == 1..MaxQty

ItemExistsIn(tbl, i)   == i \in 1..Len(tbl)
ReservationExists(r)   == r \in 1..Len(reservations)

NoRow == [id |-> 0, item_id |-> 0, customer_id |-> "", quantity |-> 0,
          status |-> "NONE", created_at |-> NULL, expires_at |-> NULL,
          confirmed_at |-> NULL, cancelled_at |-> NULL]

\* the row returned by .select().single(): the columns plus the id
Response(tbl, r) == [id |-> r] @@ tbl[r]

NoReq == [op |-> "none", arg |-> 0, qty |-> 0, total |-> 0, qnow |-> 0,
          pendingQty |-> 0, stamp |-> NULL, ids |-> {}]

NoResult == [handler |-> "none", op |-> "none", arg |-> 0, qty |-> 0, code |-> "NONE", http |-> 0,
             via |-> "none", row |-> NoRow, available |-> 0,
             expired_count |-> 0, expired_reservation_ids |-> {},
             total_quantity |-> 0, reserved_quantity |-> 0,
             confirmed_quantity |-> 0]

Fail(op, arg, code, via) ==
  [NoResult EXCEPT !.op = op, !.arg = arg, !.code = code,
                   !.http = StatusCode(code), !.via = via]

Ok(op, arg, via, row) ==
  [NoResult EXCEPT !.op = op, !.arg = arg, !.code = "OK",
                   !.http = StatusCode("OK"), !.via = via, !.row = row]

\* reduce((sum, r) => sum + r.quantity, 0) over the rows with ids in S
RECURSIVE SumQuantity(_, _)
SumQuantity(tbl, S) ==
  IF S = {} THEN 0
  ELSE LET r == CHOOSE x \in S : TRUE
       IN  tbl[r].quantity + SumQuantity(tbl, S \ {r})

\* the state the step starts from, recorded for the properties
Before == [pc |-> pc, req |-> req, items |-> items, reservations |-> reservations]

Finish(p, res) ==
  /\ prev' = Before
  /\ pc' = [pc EXCEPT ![p] = "idle"]
  /\ req' = [req EXCEPT ![p] = NoReq]
  /\ response' = [res EXCEPT !.handler = p]

Goto(p, label, locals) ==
  /\ prev' = Before
  /\ pc' = [pc EXCEPT ![p] = label]
  /\ req' = [req EXCEPT ![p] = locals]
  /\ response' = NoResult

\* --------------------------------------------------------------------- Init
Init ==
  /\ now = 0
  /\ items = << >>
  /\ reservations = << >>
  /\ pc = [p \in Procs |-> "idle"]
  /\ req = [p \in Procs |-> NoReq]
  /\ response = NoResult
  /\ prev = [pc |-> pc, req |-> req, items |-> items, reservations |-> reservations]

\* the clock advances
Tick ==
  /\ now < MaxTime
  /\ now' = now + 1
  /\ response' = NoResult
  /\ prev' = Before
  /\ UNCHANGED <<items, reservations, pc, req>>

\* items.service createItem: one insert
createItem(q) ==
  /\ Len(items) < MaxItems
  /\ items' = Append(items, [total_quantity |-> q])
  /\ response' = NoResult
  /\ prev' = Before
  /\ UNCHANGED <<now, reservations, pc, req>>


\* ------------------------------------------------- reservations.service
\* faulty variant: a hold still counts at the instant of its expires_at
LiveHold_inclusive(row, t) == row.status = PENDING /\ row.expires_at >= t

\* faulty variant: a stale hold counts until a sweep marks it
LiveHold_untilSwept(row, t) == row.status = PENDING

\* .eq('status', PENDING).gt('expires_at', <clock read when the query was built>)
LiveHold(row, t) == row.status = PENDING /\ row.expires_at > t

\* faulty variant: the admission check is missing
Insufficient_never(availableQty, quantity) == FALSE

\* faulty variant: the admission check rejects a request that fits exactly
Insufficient_strict(availableQty, quantity) == availableQty <= quantity

\* if (availableQty < input.quantity) throw INSUFFICIENT_QUANTITY
Insufficient(availableQty, quantity) == availableQty < quantity

\* the reservation ids a query on item i returns
PendingLiveIds(tbl, i, t) ==
  {r \in 1..Len(tbl) : tbl[r].item_id = i /\ LiveHold(tbl[r], t)}

ConfirmedIds(tbl, i) ==
  {r \in 1..Len(tbl) : tbl[r].item_id = i /\ tbl[r].status = CONFIRMED}

\* requests that may still insert a reservation row
InFlightCreates == Cardinality({p \in Procs : req[p].op = "create"})

\* createReservation, first store call: itemExists(input.item_id)
createReservation_itemExists(p, i, q) ==
  /\ pc[p] = "idle"
  /\ Len(reservations) + InFlightCreates < MaxRes
  /\ IF ~ItemExistsIn(items, i)
       THEN Finish(p, [Fail("create", i, "ITEM_NOT_FOUND", "precheck") EXCEPT !.qty = q])
       ELSE Goto(p, "cr_item", [NoReq EXCEPT !.op = "create", !.arg = i, !.qty = q])
  /\ UNCHANGED <<now, items, reservations>>

\* getAvailableQuantity, first query: the item's total_quantity; the clock
\* value of the pending query is read when that query is built
getAvailableQuantity_item(p) ==
  /\ pc[p] = "cr_item"
  /\ Goto(p, "cr_pending",
          [req[p] EXCEPT !.total = items[req[p].arg].total_quantity, !.qnow = now])
  /\ UNCHANGED <<now, items, reservations>>

\* getAvailableQuantity, second query: PENDING rows that are not expired
getAvailableQuantity_pending(p) ==
  /\ pc[p] = "cr_pending"
  /\ Goto(p, "cr_confirmed",
          [req[p] EXCEPT !.pendingQty =
             SumQuantity(reservations,
                         PendingLiveIds(reservations, req[p].arg, req[p].qnow))])
  /\ UNCHANGED <<now, items, reservations>>

\* getAvailableQuantity, third query: CONFIRMED rows; then the admission
\* check of createReservation and the computation of expiresAt
getAvailableQuantity_confirmed(p) ==
  /\ pc[p] = "cr_confirmed"
  /\ LET confirmedQty == SumQuantity(reservations,
                                     ConfirmedIds(reservations, req[p].arg))
         availableQty == req[p].total - req[p].pendingQty - confirmedQty
     IN  IF Insufficient(availableQty, req[p].qty)
           THEN Finish(p, [Fail("create", req[p].arg, "INSUFFICIENT_QUANTITY", "admission")
                             EXCEPT !.qty = req[p].qty, !.available = availableQty])
           ELSE Goto(p, "cr_insert",
                     [req[p] EXCEPT !.stamp = now + RESERVATION_EXPIRY_MINUTES])
  /\ UNCHANGED <<now, items, reservations>>

\* createReservation, the insert; created_at is the store's NOW()
createReservation_insert(p) ==
  /\ pc[p] = "cr_insert"
  /\ reservations' = Append(reservations,
       [item_id |-> req[p].arg, customer_id |-> "customer",
        quantity |-> req[p].qty, status |-> PENDING,
        created_at |-> now, expires_at |-> req[p].stamp,
        confirmed_at |-> NULL, cancelled_at |-> NULL])
  /\ Finish(p, [NoResult EXCEPT !.op = "create", !.arg = req[p].arg,
                  !.qty = req[p].qty, !.code = "CREATED",
                  !.http = StatusCode("CREATED"), !.via = "write",
                  !.row = Response(reservations', Len(reservations'))])
  /\ UNCHANGED <<now, items>>

\* faulty variant: the lazy expiry check is missing
PastExpiry_never(t, row) == FALSE

\* if (now > expiresAt) throw RESERVATION_EXPIRED
PastExpiry(t, row) == t > row.expires_at

\* faulty variant: the update is not conditional on the status
ConfirmGuard_none(row) == TRUE

\* the conditional update's .eq('status', PENDING)
ConfirmGuard(row) == row.status = PENDING

\* faulty variant: both rejected statuses throw the same error code
ConfirmStatusError_same(status) ==
  IF status \in {CANCELLED, EXPIRED} THEN "RESERVATION_EXPIRED" ELSE "NONE"

\* switch (reservation.status): the error code thrown for a status that
\* cannot be confirmed, "NONE" when the switch falls through
ConfirmStatusError(status) ==
  CASE status = CANCELLED -> "RESERVATION_CANCELLED"
    [] status = EXPIRED   -> "RESERVATION_EXPIRED"
    [] OTHER              -> "NONE"

\* faulty variant: a repeated confirm writes confirmed_at again
confirmReservation_alreadyConfirmed_rewrite(p, r) ==
  /\ reservations' = [reservations EXCEPT ![r].confirmed_at = now]
  /\ Finish(p, Ok("confirm", r, "idem", Response(reservations', r)))

\* confirmReservation, early return for a reservation that is CONFIRMED
confirmReservation_alreadyConfirmed(p, r) ==
  /\ Finish(p, Ok("confirm", r, "idem", Response(reservations, r)))
  /\ UNCHANGED reservations

\* confirmReservation, first store call (getReservation) and the checks on it
confirmReservation_get(p, r) ==
  /\ pc[p] = "idle"
  /\ IF ~ReservationExists(r)
       THEN Finish(p, Fail("confirm", r, "RESERVATION_NOT_FOUND", "precheck"))
            /\ UNCHANGED reservations
     ELSE IF reservations[r].status = CONFIRMED
       THEN confirmReservation_alreadyConfirmed(p, r)
     ELSE IF ConfirmStatusError(reservations[r].status) # "NONE"
       THEN Finish(p, Fail("confirm", r, ConfirmStatusError(reservations[r].status), "status"))
            /\ UNCHANGED reservations
     ELSE IF PastExpiry(now, reservations[r])
       THEN Finish(p, Fail("confirm", r, "RESERVATION_EXPIRED", "lazy"))
            /\ UNCHANGED reservations
     ELSE Goto(p, "cf_update", [NoReq EXCEPT !.op = "confirm", !.arg = r, !.stamp = now])
          /\ UNCHANGED reservations
  /\ UNCHANGED <<now, items>>

\* faulty variant: the confirming update does not set confirmed_at
confirmReservation_update_noStamp(p) ==
  /\ pc[p] = "cf_update"
  /\ LET r == req[p].arg
     IN  IF ConfirmGuard(reservations[r])
           THEN /\ reservations' = [reservations EXCEPT ![r].status = CONFIRMED]
                /\ Finish(p, Ok("confirm", r, "write", Response(reservations', r)))
           ELSE /\ UNCHANGED reservations
                /\ Goto(p, "cf_reread", req[p])
  /\ UNCHANGED <<now, items>>

\* confirmReservation, the conditional update
confirmReservation_update(p) ==
  /\ pc[p] = "cf_update"
  /\ LET r == req[p].arg
     IN  IF ConfirmGuard(reservations[r])
           THEN /\ reservations' = [reservations EXCEPT
                       ![r].status = CONFIRMED, ![r].confirmed_at = req[p].stamp]
                /\ Finish(p, Ok("confirm", r, "write", Response(reservations', r)))
           ELSE /\ UNCHANGED reservations
                /\ Goto(p, "cf_reread", req[p])
  /\ UNCHANGED <<now, items>>

\* faulty variant: the re-read never treats CONFIRMED as success
confirmReservation_reread_noIdem(p) ==
  /\ pc[p] = "cf_reread"
  /\ Finish(p, Fail("confirm", req[p].arg, "RESERVATION_EXPIRED", "reread"))
  /\ UNCHANGED <<now, items, reservations>>

\* confirmReservation, the re-read after the update matched no row (PGRST116)
confirmReservation_reread(p) ==
  /\ pc[p] = "cf_reread"
  /\ LET r == req[p].arg
     IN  IF reservations[r].status = CONFIRMED
           THEN Finish(p, Ok("confirm", r, "reread", Response(reservations, r)))
           ELSE Finish(p, Fail("confirm", r, "RESERVATION_EXPIRED", "reread"))
  /\ UNCHANGED <<now, items, reservations>>


\* faulty variant: the update is not conditional on the status
CancelGuard_none(row) == TRUE

\* the conditional update's .eq('status', PENDING) in cancelReservation
CancelGuard(row) == row.status = PENDING

\* faulty variant: a repeated cancel writes cancelled_at again
cancelReservation_alreadyCancelled_rewrite(p, r) ==
  /\ reservations' = [reservations EXCEPT ![r].cancelled_at = now]
  /\ Finish(p, Ok("cancel", r, "idem", Response(reservations', r)))

\* cancelReservation, early return for a reservation that is CANCELLED
cancelReservation_alreadyCancelled(p, r) ==
  /\ Finish(p, Ok("cancel", r, "idem", Response(reservations, r)))
  /\ UNCHANGED reservations

\* faulty variant: cancel has the lazy expiry check of confirm
cancelReservation_pending_lazy(p, r) ==
  /\ IF now > reservations[r].expires_at
       THEN Finish(p, Fail("cancel", r, "RESERVATION_EXPIRED", "lazy"))
       ELSE Goto(p, "cn_update", [NoReq EXCEPT !.op = "cancel", !.arg = r, !.stamp = now])
  /\ UNCHANGED reservations

\* cancelReservation, what follows the status switch for a PENDING row:
\* the update is built with cancelled_at = the clock
cancelReservation_pending(p, r) ==
  /\ Goto(p, "cn_update", [NoReq EXCEPT !.op = "cancel", !.arg = r, !.stamp = now])
  /\ UNCHANGED reservations

\* faulty variant: the status switch of cancel is missing
cancelReservation_get_noSwitch(p, r) ==
  /\ pc[p] = "idle"
  /\ IF ~ReservationExists(r)
       THEN Finish(p, Fail("cancel", r, "RESERVATION_NOT_FOUND", "precheck"))
            /\ UNCHANGED reservations
     ELSE IF reservations[r].status = CANCELLED
       THEN cancelReservation_alreadyCancelled(p, r)
     ELSE cancelReservation_pending(p, r)
  /\ UNCHANGED <<now, items>>

\* cancelReservation, first store call (getReservation) and the checks on it
cancelReservation_get(p, r) ==
  /\ pc[p] = "idle"
  /\ IF ~ReservationExists(r)
       THEN Finish(p, Fail("cancel", r, "RESERVATION_NOT_FOUND", "precheck"))
            /\ UNCHANGED reservations
     ELSE IF reservations[r].status = CANCELLED
       THEN cancelReservation_alreadyCancelled(p, r)
     ELSE IF reservations[r].status = EXPIRED
       THEN Finish(p, Fail("cancel", r, "RESERVATION_EXPIRED", "status"))
            /\ UNCHANGED reservations
     ELSE IF reservations[r].status = CONFIRMED
       THEN Finish(p, Fail("cancel", r, "RESERVATION_CONFIRMED", "status"))
            /\ UNCHANGED reservations
     ELSE cancelReservation_pending(p, r)
  /\ UNCHANGED <<now, items>>

\* cancelReservation, the conditional update
\* faulty variant: the cancel write also zeroes the quantity it releases
cancelReservation_update_zeroQuantity(p) ==
  /\ pc[p] = "cn_update"
  /\ LET r == req[p].arg
     IN  IF CancelGuard(reservations[r])
           THEN /\ reservations' = [reservations EXCEPT
                       ![r].status = CANCELLED, ![r].cancelled_at = req[p].stamp,
                       ![r].quantity = 0]
                /\ Finish(p, Ok("cancel", r, "write", Response(reservations', r)))
           ELSE /\ UNCHANGED reservations
                /\ Goto(p, "cn_reread", req[p])
  /\ UNCHANGED <<now, items>>

\* faulty variant: the cancel write stamps cancelled_at and leaves the status
cancelReservation_update_keepPending(p) ==
  /\ pc[p] = "cn_update"
  /\ LET r == req[p].arg
     IN  IF CancelGuard(reservations[r])
           THEN /\ reservations' = [reservations EXCEPT
                       ![r].cancelled_at = req[p].stamp]
                /\ Finish(p, Ok("cancel", r, "write", Response(reservations', r)))
           ELSE /\ UNCHANGED reservations
                /\ Goto(p, "cn_reread", req[p])
  /\ UNCHANGED <<now, items>>

cancelReservation_update(p) ==
  /\ pc[p] = "cn_update"
  /\ LET r == req[p].arg
     IN  IF CancelGuard(reservations[r])
           THEN /\ reservations' = [reservations EXCEPT
                       ![r].status = CANCELLED, ![r].cancelled_at = req[p].stamp]
                /\ Finish(p, Ok("cancel", r, "write", Response(reservations', r)))
           ELSE /\ UNCHANGED reservations
                /\ Goto(p, "cn_reread", req[p])
  /\ UNCHANGED <<now, items>>

\* faulty variant: the re-read treats only CANCELLED as success
cancelReservation_reread_onlyCancelled(p) ==
  /\ pc[p] = "cn_reread"
  /\ LET r == req[p].arg
     IN  IF reservations[r].status = CANCELLED
           THEN Finish(p, Ok("cancel", r, "reread", Response(reservations, r)))
           ELSE Finish(p, Fail("cancel", r, "RESERVATION_CONFIRMED", "reread"))
  /\ UNCHANGED <<now, items, reservations>>

\* faulty variant: the re-read of cancel rejects a row found EXPIRED
cancelReservation_reread_rejectExpired(p) ==
  /\ pc[p] = "cn_reread"
  /\ LET r == req[p].arg
     IN  IF reservations[r].status = CANCELLED
           THEN Finish(p, Ok("cancel", r, "reread", Response(reservations, r)))
           ELSE IF reservations[r].status = EXPIRED
             THEN Finish(p, Fail("cancel", r, "RESERVATION_EXPIRED", "reread"))
             ELSE Finish(p, Fail("cancel", r, "RESERVATION_CONFIRMED", "reread"))
  /\ UNCHANGED <<now, items, reservations>>

\* cancelReservation, the re-read after the update matched no row (PGRST116)
cancelReservation_reread(p) ==
  /\ pc[p] = "cn_reread"
  /\ LET r == req[p].arg
     IN  IF reservations[r].status = CANCELLED \/ reservations[r].status = EXPIRED
           THEN Finish(p, Ok("cancel", r, "reread", Response(reservations, r)))
           ELSE Finish(p, Fail("cancel", r, "RESERVATION_CONFIRMED", "reread"))
  /\ UNCHANGED <<now, items, reservations>>

\* ---------------------------------------------------- maintenance.service
\* faulty variant: the sweep selects every PENDING reservation
Stale_all(row, t) == row.status = PENDING

\* faulty variant: a reservation is swept at its expires_at, not after it
Stale_inclusive(row, t) == row.status = PENDING /\ row.expires_at <= t

\* .eq('status', 'PENDING').lt('expires_at', now)
Stale(row, t) == row.status = PENDING /\ row.expires_at < t

\* faulty variant: the bulk update is not conditional on the status
ExpireGuard_none(row) == TRUE

\* the bulk update's .eq('status', 'PENDING')
ExpireGuard(row) == row.status = PENDING

\* expireReservations, the select of the stale PENDING ids
expireReservations_select(p) ==
  /\ pc[p] = "idle"
  /\ LET expiredIds == {r \in 1..Len(reservations) : Stale(reservations[r], now)}
     IN  IF expiredIds = {}
           THEN Finish(p, [NoResult EXCEPT !.op = "sweep", !.code = "OK",
                             !.http = StatusCode("OK"), !.via = "empty"])
           ELSE Goto(p, "sw_update", [NoReq EXCEPT !.op = "sweep", !.ids = expiredIds])
  /\ UNCHANGED <<now, items, reservations>>

\* faulty variant: the result lists only the rows the update changed
expireReservations_update_onlyWritten(p) ==
  /\ pc[p] = "sw_update"
  /\ reservations' =
       [r \in 1..Len(reservations) |->
          IF r \in req[p].ids /\ ExpireGuard(reservations[r])
            THEN [reservations[r] EXCEPT !.status = EXPIRED]
            ELSE reservations[r]]
  /\ LET written == {r \in req[p].ids : ExpireGuard(reservations[r])}
     IN  Finish(p, [NoResult EXCEPT !.op = "sweep", !.code = "OK",
                      !.http = StatusCode("OK"), !.via = "write",
                      !.expired_count = Cardinality(written),
                      !.expired_reservation_ids = written])
  /\ UNCHANGED <<now, items>>

\* expireReservations, the bulk update and the result
expireReservations_update(p) ==
  /\ pc[p] = "sw_update"
  /\ reservations' =
       [r \in 1..Len(reservations) |->
          IF r \in req[p].ids /\ ExpireGuard(reservations[r])
            THEN [reservations[r] EXCEPT !.status = EXPIRED]
            ELSE reservations[r]]
  /\ Finish(p, [NoResult EXCEPT !.op = "sweep", !.code = "OK",
                  !.http = StatusCode("OK"), !.via = "write",
                  !.expired_count = Cardinality(req[p].ids),
                  !.expired_reservation_ids = req[p].ids])
  /\ UNCHANGED <<now, items>>

\* ---------------------------------------------------------- items.service
\* faulty variant: the status report leaves out holds past their expires_at
PendingIds_live(tbl, i) ==
  {r \in 1..Len(tbl) : tbl[r].item_id = i /\ tbl[r].status = PENDING
                         /\ tbl[r].expires_at > now}

\* getItemStatus, the pending query: .eq('status', PENDING), no expiry filter
PendingIds(tbl, i) ==
  {r \in 1..Len(tbl) : tbl[r].item_id = i /\ tbl[r].status = PENDING}

\* getItemStatus, first store call: the item row
getItemStatus_item(p, i) ==
  /\ pc[p] = "idle"
  /\ IF ~ItemExistsIn(items, i)
       THEN Finish(p, Fail("status", i, "ITEM_NOT_FOUND", "precheck"))
       ELSE Goto(p, "st_pending",
                 [NoReq EXCEPT !.op = "status", !.arg = i,
                               !.total = items[i].total_quantity])
  /\ UNCHANGED <<now, items, reservations>>

\* getItemStatus, second store call: the PENDING rows of the item
getItemStatus_pending(p) ==
  /\ pc[p] = "st_pending"
  /\ Goto(p, "st_confirmed",
          [req[p] EXCEPT !.pendingQty =
             SumQuantity(reservations, PendingIds(reservations, req[p].arg))])
  /\ UNCHANGED <<now, items, reservations>>

\* getItemStatus, third store call: the CONFIRMED rows; then the result
getItemStatus_confirmed(p) ==
  /\ pc[p] = "st_confirmed"
  /\ LET reservedQuantity  == req[p].pendingQty
         confirmedQuantity == SumQuantity(reservations,
                                          ConfirmedIds(reservations, req[p].arg))
     IN  Finish(p, [NoResult EXCEPT !.op = "status", !.arg = req[p].arg,
                      !.code = "OK", !.http = StatusCode("OK"), !.via = "read",
                      !.total_quantity = req[p].total,
                      !.available = req[p].total - reservedQuantity - confirmedQuantity,
                      !.reserved_quantity = reservedQuantity,
                      !.confirmed_quantity = confirmedQuantity])
  /\ UNCHANGED <<now, items, reservations>>

\* ------------------------------------------------------------ store errors
\* a store call of handler p returns an error other than PGRST116: the
\* service throws AppError(500, ..., DATABASE_ERROR); the call changed nothing
StoreError(p, op, a) ==
  /\ Finish(p, Fail(op, a, "DATABASE_ERROR", "store"))
  /\ UNCHANGED <<now, items, reservations>>

\* faulty variant: the bulk update is applied although the call reports an error
expireReservations_updateError_applied(p) ==
  /\ pc[p] = "sw_update"
  /\ reservations' =
       [r \in 1..Len(reservations) |->
          IF r \in req[p].ids /\ ExpireGuard(reservations[r])
            THEN [reservations[r] EXCEPT !.status = EXPIRED]
            ELSE reservations[r]]
  /\ Finish(p, Fail("sweep", 0, "DATABASE_ERROR", "store"))
  /\ UNCHANGED <<now, items>>

\* itemExists: the query fails
itemExists_error(p, i) ==
  /\ pc[p] = "idle"
  /\ StoreError(p, "create", i)

\* getAvailableQuantity: one of its three queries fails
getAvailableQuantity_error(p) ==
  /\ pc[p] \in {"cr_item", "cr_pending", "cr_confirmed"}
  /\ StoreError(p, "create", req[p].arg)

\* createReservation: the insert fails
createReservation_insertError(p) ==
  /\ pc[p] = "cr_insert"
  /\ StoreError(p, "create", req[p].arg)

\* getReservation as first call of confirm or cancel: the query fails
getReservation_error(p, op, r) ==
  /\ pc[p] = "idle"
  /\ op \in {"confirm", "cancel"}
  /\ StoreError(p, op, r)

\* confirmReservation: the update fails with an error other than PGRST116
confirmReservation_updateError(p) ==
  /\ pc[p] = "cf_update"
  /\ StoreError(p, "confirm", req[p].arg)

\* cancelReservation: the update fails with an error other than PGRST116
cancelReservation_updateError(p) ==
  /\ pc[p] = "cn_update"
  /\ StoreError(p, "cancel", req[p].arg)

\* getReservation as the re-read of confirm or cancel: the query fails
getReservation_rereadError(p) ==
  /\ pc[p] \in {"cf_reread", "cn_reread"}
  /\ StoreError(p, req[p].op, req[p].arg)

\* expireReservations: the select fails
expireReservations_fetchError(p) ==
  /\ pc[p] = "idle"
  /\ StoreError(p, "sweep", 0)

\* expireReservations: the bulk update fails
expireReservations_updateError(p) ==
  /\ pc[p] = "sw_update"
  /\ StoreError(p, "sweep", 0)

\* getItemStatus: the item query fails with an error other than PGRST116
getItemStatus_itemError(p, i) ==
  /\ pc[p] = "idle"
  /\ StoreError(p, "status", i)

\* getItemStatus: the pending or the confirmed query fails
getItemStatus_queryError(p) ==
  /\ pc[p] \in {"st_pending", "st_confirmed"}
  /\ StoreError(p, "status", req[p].arg)

\* ------------------------------------------------------------ specification
Next ==
  \/ Tick
  \/ \E q \in Quantities : createItem(q)
  \/ \E p \in Procs, i \in ItemIds, q \in Quantities : createReservation_itemExists(p, i, q)
  \/ \E p \in Procs : getAvailableQuantity_item(p)
  \/ \E p \in Procs : getAvailableQuantity_pending(p)
  \/ \E p \in Procs : getAvailableQuantity_confirmed(p)
  \/ \E p \in Procs : createReservation_insert(p)
  \/ \E p \in Procs, r \in ReservationIds : confirmReservation_get(p, r)
  \/ \E p \in Procs : confirmReservation_update(p)
  \/ \E p \in Procs : confirmReservation_reread(p)
  \/ \E p \in Procs, r \in ReservationIds : cancelReservation_get(p, r)
  \/ \E p \in Procs : cancelReservation_update(p)
  \/ \E p \in Procs : cancelReservation_reread(p)
  \/ \E p \in Procs : expireReservations_select(p)
  \/ \E p \in Procs : expireReservations_update(p)

Spec == Init /\ [][Next]_vars

\* The same program with the status report, where a sweep and a status
\* report each run with no request running beside them (requests of the
\* other kinds still race each other).
Exclusive == {"sweep", "status"}

\* no other handler is inside a sweep or a status report
NoExclusiveBeside(p) == \A q \in Procs \ {p} : req[q].op \notin Exclusive

\* no other handler is inside any request
NothingBeside(p) == \A q \in Procs \ {p} : pc[q] = "idle"

NextQuiet ==
  \/ Tick
  \/ \E q \in Quantities : createItem(q)
  \/ \E p \in Procs, i \in ItemIds, q \in Quantities :
       NoExclusiveBeside(p) /\ createReservation_itemExists(p, i, q)
  \/ \E p \in Procs : getAvailableQuantity_item(p)
  \/ \E p \in Procs : getAvailableQuantity_pending(p)
  \/ \E p \in Procs : getAvailableQuantity_confirmed(p)
  \/ \E p \in Procs : createReservation_insert(p)
  \/ \E p \in Procs, r \in ReservationIds :
       NoExclusiveBeside(p) /\ confirmReservation_get(p, r)
  \/ \E p \in Procs : confirmReservation_update(p)
  \/ \E p \in Procs : confirmReservation_reread(p)
  \/ \E p \in Procs, r \in ReservationIds :
       NoExclusiveBeside(p) /\ cancelReservation_get(p, r)
  \/ \E p \in Procs : cancelReservation_update(p)
  \/ \E p \in Procs : cancelReservation_reread(p)
  \/ \E p \in Procs : NothingBeside(p) /\ expireReservations_select(p)
  \/ \E p \in Procs : expireReservations_update(p)
  \/ \E p \in Procs, i \in ItemIds : NothingBeside(p) /\ getItemStatus_item(p, i)
  \/ \E p \in Procs : getItemStatus_pending(p)
  \/ \E p \in Procs : getItemStatus_confirmed(p)

SpecQuiet == Init /\ [][NextQuiet]_vars

\* The program of SpecQuiet with store calls that may fail.  A request whose
\* first store call fails is taken with no request beside it; a later store
\* call may fail while the other handler is inside a request.
NextFaults ==
  \/ NextQuiet
  \/ \E p \in Procs, i \in ItemIds : NothingBeside(p) /\ itemExists_error(p, i)
  \/ \E p \in Procs : getAvailableQuantity_error(p)
  \/ \E p \in Procs : createReservation_insertError(p)
  \/ \E p \in Procs, op \in {"confirm", "cancel"}, r \in ReservationIds :
       NothingBeside(p) /\ getReservation_error(p, op, r)
  \/ \E p \in Procs : confirmReservation_updateError(p)
  \/ \E p \in Procs : cancelReservation_updateError(p)
  \/ \E p \in Procs : getReservation_rereadError(p)
  \/ \E p \in Procs : NothingBeside(p) /\ expireReservations_fetchError(p)
  \/ \E p \in Procs : expireReservations_updateError(p)
  \/ \E p \in Procs, i \in ItemIds : NothingBeside(p) /\ getItemStatus_itemError(p, i)
  \/ \E p \in Procs : getItemStatus_queryError(p)

SpecFaults == Init /\ [][NextFaults]_vars

\* The program with status reports running beside the other requests: the
\* three store calls of getItemStatus interleave with every other handler.
NextStatus ==
  \/ Next
  \/ \E p \in Procs, i \in ItemIds : getItemStatus_item(p, i)
  \/ \E p \in Procs : getItemStatus_pending(p)
  \/ \E p \in Procs : getItemStatus_confirmed(p)

SpecStatus == Init /\ [][NextStatus]_vars

\* The program in which every request runs from its first store call to its
\* return with no request beside it.  The re-reads of confirm and cancel
\* follow an update that matched no row, which takes another request in
\* between, so they are no steps of this program.
NextSequential ==
  \/ Tick
  \/ \E q \in Quantities : createItem(q)
  \/ \E p \in Procs, i \in ItemIds, q \in Quantities :
       NothingBeside(p) /\ createReservation_itemExists(p, i, q)
  \/ \E p \in Procs : getAvailableQuantity_item(p)
  \/ \E p \in Procs : getAvailableQuantity_pending(p)
  \/ \E p \in Procs : getAvailableQuantity_confirmed(p)
  \/ \E p \in Procs : createReservation_insert(p)
  \/ \E p \in Procs, r \in ReservationIds :
       NothingBeside(p) /\ confirmReservation_get(p, r)
  \/ \E p \in Procs : confirmReservation_update(p)
  \/ \E p \in Procs, r \in ReservationIds :
       NothingBeside(p) /\ cancelReservation_get(p, r)
  \/ \E p \in Procs : cancelReservation_update(p)
  \/ \E p \in Procs : NothingBeside(p) /\ expireReservations_select(p)
  \/ \E p \in Procs : expireReservations_update(p)
  \/ \E p \in Procs, i \in ItemIds : NothingBeside(p) /\ getItemStatus_item(p, i)
  \/ \E p \in Procs : getItemStatus_pending(p)
  \/ \E p \in Procs : getItemStatus_confirmed(p)

SpecSequential == Init /\ [][NextSequential]_vars

\* createReservation with its store calls (itemExists, the three queries of
\* getAvailableQuantity, the insert) and the code between them taken as one
\* step: the availability check and the insert see the same tables and clock
createReservation_atomic(p, i, q) ==
  /\ pc[p] = "idle"
  /\ Len(reservations) < MaxRes
  /\ IF ~ItemExistsIn(items, i)
       THEN /\ Finish(p, [Fail("create", i, "ITEM_NOT_FOUND", "precheck") EXCEPT !.qty = q])
            /\ UNCHANGED reservations
       ELSE LET pendingQty   == SumQuantity(reservations,
                                            PendingLiveIds(reservations, i, now))
                confirmedQty == SumQuantity(reservations, ConfirmedIds(reservations, i))
                availableQty == items[i].total_quantity - pendingQty - confirmedQty
            IN  IF Insufficient(availableQty, q)
                  THEN /\ Finish(p, [Fail("create", i, "INSUFFICIENT_QUANTITY", "admission")
                                       EXCEPT !.qty = q, !.available = availableQty])
                       /\ UNCHANGED reservations
                  ELSE /\ reservations' = Append(reservations,
                            [item_id |-> i, customer_id |-> "customer",
                             quantity |-> q, status |-> PENDING,
                             created_at |-> now,
                             expires_at |-> now + RESERVATION_EXPIRY_MINUTES,
                             confirmed_at |-> NULL, cancelled_at |-> NULL])
                       /\ Finish(p, [NoResult EXCEPT !.op = "create", !.arg = i,
                                       !.qty = q, !.code = "CREATED",
                                       !.http = StatusCode("CREATED"), !.via = "write",
                                       !.row = Response(reservations', Len(reservations'))])
  /\ UNCHANGED <<now, items>>

\* The program in which every createReservation is one atomic step; confirm,
\* cancel, the sweep and the clock interleave as in Spec.
NextAtomicCreate ==
  \/ Tick
  \/ \E q \in Quantities : createItem(q)
  \/ \E p \in Procs, i \in ItemIds, q \in Quantities : createReservation_atomic(p, i, q)
  \/ \E p \in Procs, r \in ReservationIds : confirmReservation_get(p, r)
  \/ \E p \in Procs : confirmReservation_update(p)
  \/ \E p \in Procs : confirmReservation_reread(p)
  \/ \E p \in Procs, r \in ReservationIds : cancelReservation_get(p, r)
  \/ \E p \in Procs : cancelReservation_update(p)
  \/ \E p \in Procs : cancelReservation_reread(p)
  \/ \E p \in Procs : expireReservations_select(p)
  \/ \E p \in Procs : expireReservations_update(p)

SpecAtomicCreate == Init /\ [][NextAtomicCreate]_vars


\* ------------------------------------------------------------------ claims
\* Each property relates the state before the step just taken (prev) to the
\* state after it, so it speaks of every single step of every interleaving.

\* the ledger of item i at the clock value t
ReservedQuantity(i, t) ==
  SumQuantity(reservations, PendingLiveIds(reservations, i, t))

ConfirmedQuantity(tbl, i) == SumQuantity(tbl, ConfirmedIds(tbl, i))

\* the step just taken is handler p entering operation op with argument a
Called(p, op, a) ==
  /\ prev.pc[p] = "idle"
  /\ \/ response.handler = p /\ response.op = op /\ response.arg = a
     \/ pc[p] # "idle" /\ req[p].op = op /\ req[p].arg = a

\* the reservation rows as they were before the step just taken
Old(r) == prev.reservations[r]
OldIds == 1..Len(prev.reservations)

\* C1: in every reachable state and for every item, total_quantity is at
\* least the sum of its live PENDING holds plus the sum of its CONFIRMED
\* reservations.
C1_AccountingInvariant ==
  \A i \in 1..Len(items) :
    items[i].total_quantity >=
      ReservedQuantity(i, now) + ConfirmedQuantity(reservations, i)

\* C2: two createReservation requests that run concurrently on one item and
\* together ask for more than the item holds are never both admitted: it
\* never happens that both have passed the availability check and have only
\* their insert left.
C2_ExactlyOneCreateSucceeds ==
  ~ \E p \in Procs, q \in Procs :
       /\ p # q
       /\ pc[p] = "cr_insert" /\ pc[q] = "cr_insert"
       /\ req[p].arg = req[q].arg
       /\ req[p].qty + req[q].qty > items[req[p].arg].total_quantity

\* C3: racing confirms: a row becomes CONFIRMED only by a confirm that found
\* it PENDING with confirmed_at null and reports the write; every confirm
\* that returns success returns the stored CONFIRMED row with its
\* confirmed_at; the confirm whose update matched no row ends with success
\* or a 409; an update that finds the row PENDING writes, one that does not
\* writes nothing and re-reads.
C3_ConfirmRace ==
  /\ \A r \in OldIds :
       (reservations[r] # Old(r) /\ reservations[r].status = CONFIRMED)
         => /\ Old(r).status = PENDING
            /\ Old(r).confirmed_at = NULL
            /\ response.op = "confirm" /\ response.via = "write"
            /\ response.arg = r
  /\ (response.op = "confirm" /\ response.code = "OK")
       => /\ response.row = Response(reservations, response.arg)
          /\ response.row.status = CONFIRMED
          /\ response.row.confirmed_at # NULL
  /\ (response.op = "confirm" /\ response.via = "reread")
       => (response.code = "OK" \/ response.http = 409)
  /\ \A p \in Procs :
       (prev.pc[p] = "cf_update" /\ pc[p] # "cf_update")
         => LET r == IF pc[p] = "idle" THEN response.arg ELSE req[p].arg
            IN  IF Old(r).status = PENDING
                  THEN /\ reservations[r].status = CONFIRMED
                       /\ response.handler = p /\ response.via = "write"
                  ELSE /\ pc[p] = "cf_reread"
                       /\ reservations = prev.reservations

\* C3 witness: a confirm lost the race to another confirm, re-read the row
\* and returned it as CONFIRMED
C3_Witness ==
  /\ response.op = "confirm" /\ response.via = "reread" /\ response.code = "OK"
  /\ reservations[response.arg].status = CONFIRMED

\* C4: a confirm racing a cancel: a row changes to CONFIRMED or CANCELLED
\* only from PENDING, no row ever has both confirmed_at and cancelled_at,
\* and the request whose update matched no row ends with success or a 409.
C4_ConfirmCancelRace ==
  /\ \A r \in OldIds :
       (reservations[r].status # Old(r).status
          /\ reservations[r].status \in {CONFIRMED, CANCELLED})
         => Old(r).status = PENDING
  /\ \A r \in 1..Len(reservations) :
       ~(reservations[r].confirmed_at # NULL /\ reservations[r].cancelled_at # NULL)
  /\ response.via = "reread"
       => (response.code = "OK" \/ response.http = 409)

\* C4 witness: a cancel lost the race to a confirm and ended with a 409
C4_Witness ==
  /\ response.op = "cancel" /\ response.via = "reread" /\ response.http = 409
  /\ reservations[response.arg].status = CONFIRMED
  /\ reservations[response.arg].cancelled_at = NULL

\* C5: a reservation's status changes only from PENDING, and only to
\* CONFIRMED, CANCELLED or EXPIRED; a terminal status never changes.
C5_TerminalStatus ==
  \A r \in OldIds :
    reservations[r].status # Old(r).status
      => /\ Old(r).status = PENDING
         /\ reservations[r].status \in {CONFIRMED, CANCELLED, EXPIRED}

\* C5 witness: a sweep's bulk update ran over a row that had been confirmed
\* or cancelled after the sweep selected it
C5_Witness ==
  /\ response.op = "sweep"
  /\ \E r \in response.expired_reservation_ids :
       reservations[r].status \in {CONFIRMED, CANCELLED}

\* C6: confirmReservation called on a CONFIRMED reservation returns success
\* with the stored confirmed_at and writes nothing: both tables are as
\* before the call, so the item's confirmed quantity is as before.
C6_ConfirmIdempotent ==
  \A p \in Procs, r \in OldIds :
    (Called(p, "confirm", r) /\ Old(r).status = CONFIRMED)
      => /\ response.handler = p /\ response.op = "confirm"
         /\ response.code = "OK" /\ response.http = 200
         /\ response.row.id = r
         /\ response.row.status = CONFIRMED
         /\ response.row.confirmed_at = Old(r).confirmed_at
         /\ reservations = prev.reservations /\ items = prev.items
         /\ ConfirmedQuantity(reservations, Old(r).item_id)
              = ConfirmedQuantity(prev.reservations, Old(r).item_id)

\* C6 witness: a confirm of a reservation confirmed at an earlier clock value
\* returned success
C6_Witness ==
  /\ response.op = "confirm" /\ response.via = "idem" /\ response.code = "OK"
  /\ reservations[response.arg].status = CONFIRMED
  /\ reservations[response.arg].confirmed_at < now

\* C7: cancelReservation called on a CANCELLED reservation returns success
\* with the stored cancelled_at and writes nothing.
C7_CancelIdempotent ==
  \A p \in Procs, r \in OldIds :
    (Called(p, "cancel", r) /\ Old(r).status = CANCELLED)
      => /\ response.handler = p /\ response.op = "cancel"
         /\ response.code = "OK" /\ response.http = 200
         /\ response.row.id = r
         /\ response.row.status = CANCELLED
         /\ response.row.cancelled_at = Old(r).cancelled_at
         /\ reservations = prev.reservations /\ items = prev.items

\* C7 witness: a cancel of a reservation cancelled at an earlier clock value
\* returned success
C7_Witness ==
  /\ response.op = "cancel" /\ response.via = "idem" /\ response.code = "OK"
  /\ reservations[response.arg].status = CANCELLED
  /\ reservations[response.arg].cancelled_at < now

\* C8: confirmReservation called on a PENDING reservation whose expires_at
\* is before the clock fails with RESERVATION_EXPIRED (409) and leaves the
\* row as it was.
C8_ConfirmLazyExpiry ==
  \A p \in Procs, r \in OldIds :
    (Called(p, "confirm", r) /\ Old(r).status = PENDING /\ Old(r).expires_at < now)
      => /\ response.handler = p /\ response.op = "confirm"
         /\ response.code = "RESERVATION_EXPIRED" /\ response.http = 409
         /\ reservations = prev.reservations
         /\ reservations[r].status = PENDING
         /\ reservations[r].confirmed_at = NULL

\* C8 witness: a confirm was rejected as expired while the row is PENDING,
\* no sweep having marked it
C8_Witness ==
  /\ response.op = "confirm" /\ response.code = "RESERVATION_EXPIRED"
  /\ reservations[response.arg].status = PENDING
  /\ reservations[response.arg].expires_at < now

\* C9 as stated: cancelReservation called on a PENDING reservation whose
\* expires_at is before the clock is rejected with RESERVATION_EXPIRED, and
\* no cancel moves to CANCELLED a reservation that was past its expires_at
\* when the cancel was called (cancelled_at is the clock read by that call).
C9_CancelRejectsStale ==
  /\ \A p \in Procs, r \in OldIds :
       (Called(p, "cancel", r) /\ Old(r).status = PENDING /\ Old(r).expires_at < now)
         => /\ response.handler = p
            /\ response.code = "RESERVATION_EXPIRED"
  /\ ~ ( /\ response.op = "cancel" /\ response.via = "write"
         /\ response.row.status = CANCELLED
         /\ response.row.expires_at < response.row.cancelled_at )

\* C9 as amended: cancelReservation called on a PENDING reservation past its
\* expires_at is not rejected: it goes on to its conditional update, and
\* that update, finding the row PENDING, moves it to CANCELLED with
\* cancelled_at set and returns success.
C9_CancelOfStaleSucceeds ==
  \A p \in Procs, r \in OldIds :
    /\ (Called(p, "cancel", r) /\ Old(r).status = PENDING /\ Old(r).expires_at < now)
         => /\ pc[p] = "cn_update" /\ req[p].arg = r
            /\ response = NoResult
            /\ reservations = prev.reservations
    /\ (prev.pc[p] = "cn_update" /\ pc[p] = "idle" /\ response.arg = r
          /\ Old(r).status = PENDING /\ Old(r).expires_at < now)
         => /\ reservations[r].status = CANCELLED
            /\ reservations[r].cancelled_at # NULL
            /\ reservations[r].cancelled_at <= now
            /\ response.handler = p /\ response.code = "OK"
            /\ response.row = Response(reservations, r)

\* C9 witness: a cancel called after expires_at moved the row to CANCELLED
C9_Witness ==
  /\ response.op = "cancel" /\ response.via = "write" /\ response.code = "OK"
  /\ reservations[response.arg].status = CANCELLED
  /\ reservations[response.arg].expires_at < reservations[response.arg].cancelled_at

\* C10: confirmReservation fails with RESERVATION_NOT_FOUND (404) for a
\* reservation that does not exist, with RESERVATION_CANCELLED for a
\* CANCELLED one and with RESERVATION_EXPIRED for an EXPIRED one (409), and
\* changes no row in any of these cases.
C10_ConfirmRejections ==
  \A p \in Procs, r \in ReservationIds :
    Called(p, "confirm", r)
      => /\ r \notin OldIds
              => /\ response.handler = p
                 /\ response.code = "RESERVATION_NOT_FOUND"
                 /\ response.http = 404
                 /\ reservations = prev.reservations
         /\ (r \in OldIds /\ Old(r).status = CANCELLED)
              => /\ response.handler = p
                 /\ response.code = "RESERVATION_CANCELLED"
                 /\ response.http = 409
                 /\ reservations = prev.reservations
         /\ (r \in OldIds /\ Old(r).status = EXPIRED)
              => /\ response.handler = p
                 /\ response.code = "RESERVATION_EXPIRED"
                 /\ response.http = 409
                 /\ reservations = prev.reservations

\* C10 witness: a confirm of a CANCELLED reservation was rejected
C10_Witness ==
  /\ response.op = "confirm" /\ response.code = "RESERVATION_CANCELLED"
  /\ reservations[response.arg].status = CANCELLED

\* C11: cancelReservation fails with RESERVATION_NOT_FOUND (404) for a
\* reservation that does not exist, with RESERVATION_CONFIRMED for a
\* CONFIRMED one and with RESERVATION_EXPIRED for an EXPIRED one (409), and
\* changes no row in any of these cases; a CONFIRMED row is never changed by
\* any step.
C11_CancelRejections ==
  /\ \A p \in Procs, r \in ReservationIds :
       Called(p, "cancel", r)
         => /\ r \notin OldIds
                 => /\ response.handler = p
                    /\ response.code = "RESERVATION_NOT_FOUND"
                    /\ response.http = 404
                    /\ reservations = prev.reservations
            /\ (r \in OldIds /\ Old(r).status = CONFIRMED)
                 => /\ response.handler = p
                    /\ response.code = "RESERVATION_CONFIRMED"
                    /\ response.http = 409
                    /\ reservations = prev.reservations
            /\ (r \in OldIds /\ Old(r).status = EXPIRED)
                 => /\ response.handler = p
                    /\ response.code = "RESERVATION_EXPIRED"
                    /\ response.http = 409
                    /\ reservations = prev.reservations
  /\ \A r \in OldIds :
       Old(r).status = CONFIRMED => reservations[r] = Old(r)

\* C11 witness: a cancel of a CONFIRMED reservation was rejected at once
C11_Witness ==
  /\ response.op = "cancel" /\ response.code = "RESERVATION_CONFIRMED"
  /\ response.via = "status"
  /\ reservations[response.arg].status = CONFIRMED

\* handler p has just taken a step from the position label
Stepped(p, label) == prev.pc[p] = label /\ pc[p] # label

\* the availability createReservation compares with the requested quantity:
\* total_quantity and pendingQty as read by the earlier queries, less the
\* CONFIRMED quantity read by the step just taken
AdmissionAvailable(p) ==
  prev.req[p].total - prev.req[p].pendingQty
    - ConfirmedQuantity(prev.reservations, prev.req[p].arg)

\* C12: createReservation fails with ITEM_NOT_FOUND (404) when the item does
\* not exist and with INSUFFICIENT_QUANTITY (409, carrying the available and
\* the requested amount) when the availability of the admission check is
\* less than the requested quantity; a create that fails inserts no row and
\* changes none.
C12_CreateRejections ==
  /\ \A p \in Procs, i \in ItemIds :
       (Called(p, "create", i) /\ ~ItemExistsIn(prev.items, i))
         => /\ response.handler = p
            /\ response.code = "ITEM_NOT_FOUND" /\ response.http = 404
            /\ reservations = prev.reservations /\ items = prev.items
  /\ \A p \in Procs :
       (Stepped(p, "cr_confirmed") /\ AdmissionAvailable(p) < prev.req[p].qty)
         => /\ pc[p] = "idle"
            /\ response.handler = p /\ response.op = "create"
            /\ response.code = "INSUFFICIENT_QUANTITY" /\ response.http = 409
            /\ response.available = AdmissionAvailable(p)
            /\ response.qty = prev.req[p].qty
            /\ reservations = prev.reservations /\ items = prev.items
  /\ (response.op = "create" /\ response.code # "CREATED")
       => reservations = prev.reservations /\ items = prev.items

\* C12 witness: a create of quantity 1 was rejected with available 0 while
\* another reservation holds the item
C12_Witness ==
  /\ response.op = "create" /\ response.code = "INSUFFICIENT_QUANTITY"
  /\ response.available = 0 /\ response.qty = 1
  /\ \E r \in 1..Len(reservations) :
       reservations[r].item_id = response.arg /\ reservations[r].status = PENDING

\* C13: a successful createReservation inserts exactly one row, for the
\* requested item and quantity, PENDING, with confirmed_at and cancelled_at
\* null, and leaves every other row and every item as it was; no other step
\* inserts a row; a create whose item exists and whose admission-check
\* availability is at least the requested quantity goes on to the insert
\* and succeeds.
C13_CreateSuccess ==
  /\ (response.op = "create" /\ response.code = "CREATED")
       => LET n == Len(reservations)
              h == response.handler
          IN  /\ n = Len(prev.reservations) + 1
              /\ \A r \in OldIds : reservations[r] = Old(r)
              /\ items = prev.items
              /\ response.http = 201
              /\ reservations[n].item_id = prev.req[h].arg
              /\ reservations[n].quantity = prev.req[h].qty
              /\ reservations[n].status = PENDING
              /\ reservations[n].confirmed_at = NULL
              /\ reservations[n].cancelled_at = NULL
              /\ response.row = Response(reservations, n)
  /\ Len(reservations) # Len(prev.reservations)
       => response.op = "create" /\ response.code = "CREATED"
  /\ \A p \in Procs, i \in ItemIds :
       (Called(p, "create", i) /\ ItemExistsIn(prev.items, i))
         => pc[p] = "cr_item" /\ response = NoResult
  /\ \A p \in Procs :
       /\ (Stepped(p, "cr_confirmed") /\ AdmissionAvailable(p) >= prev.req[p].qty)
            => pc[p] = "cr_insert" /\ response = NoResult
       /\ Stepped(p, "cr_insert")
            => /\ response.handler = p /\ response.code = "CREATED"
               /\ response.arg = prev.req[p].arg /\ response.qty = prev.req[p].qty

\* C13 witness: a create was admitted next to a CONFIRMED reservation of the
\* same item, the two quantities together being the item's total_quantity
C13_Witness ==
  /\ response.op = "create" /\ response.code = "CREATED"
  /\ Len(reservations) = 2
  /\ reservations[2].status = PENDING
  /\ reservations[1].status = CONFIRMED
  /\ reservations[1].item_id = reservations[2].item_id
  /\ items[reservations[2].item_id].total_quantity
       = reservations[1].quantity + reservations[2].quantity

\* C14: the expiry computed by createReservation is the clock it reads plus
\* a reservation window of 10 minutes, and the inserted row carries it.
C14_TenMinuteWindow ==
  /\ \A p \in Procs :
       (Stepped(p, "cr_confirmed") /\ pc[p] = "cr_insert")
         => req[p].stamp = now + 10
  /\ (response.op = "create" /\ response.code = "CREATED")
       => response.row.expires_at >= response.row.created_at + 10

\* C15: the pending query of createReservation does not count a PENDING
\* reservation whose expires_at has been reached by the clock the query was
\* built with, swept or not: pendingQty is the sum over the item's PENDING
\* rows with expires_at after that clock value, and a create that fits once
\* those stale holds are left out is admitted and inserts its row.
C15_StaleHoldReleased ==
  \A p \in Procs :
    /\ Stepped(p, "cr_item") => req[p].qnow = now
    /\ Stepped(p, "cr_pending")
         => /\ req[p].qnow = prev.req[p].qnow
            /\ req[p].pendingQty =
                 SumQuantity(prev.reservations,
                   {r \in OldIds : /\ Old(r).item_id = prev.req[p].arg
                                   /\ Old(r).status = PENDING
                                   /\ ~(Old(r).expires_at <= prev.req[p].qnow)})
    /\ Stepped(p, "cr_confirmed")
         => /\ pc[p] = "cr_insert"
              <=> prev.req[p].qty <= prev.req[p].total - prev.req[p].pendingQty
                     - ConfirmedQuantity(prev.reservations, prev.req[p].arg)
    /\ Stepped(p, "cr_insert")
         => response.code = "CREATED" /\ Len(reservations) = Len(prev.reservations) + 1

\* C15 witness: a create was admitted and inserted its row while a
\* reservation of the same item was still PENDING with its expires_at equal
\* to the clock of the create's pending query, the item being too small for
\* both
C15_Witness ==
  /\ response.op = "create" /\ response.code = "CREATED"
  /\ \E r \in OldIds :
       /\ reservations[r].status = PENDING
       /\ reservations[r].item_id = response.arg
       /\ reservations[r].expires_at = prev.req[response.handler].qnow
       /\ items[response.arg].total_quantity < reservations[r].quantity + response.qty

\* available_quantity as getItemStatus computes it from the tables
StatusAvailable(tbl, i) ==
  items[i].total_quantity - SumQuantity(tbl, PendingIds(tbl, i))
    - ConfirmedQuantity(tbl, i)

\* C16 (a sweep with no request beside it): the sweep selects exactly the
\* reservations that are PENDING with expires_at before its clock; its
\* update turns every one of them from PENDING to EXPIRED and changes no
\* other row; the result lists their ids and their number; the
\* available_quantity getItemStatus computes for each item grows by the
\* quantities released; and a status report returns that available_quantity.
C16_SweepExpiresStale ==
  /\ \A p \in Procs :
       Called(p, "sweep", 0)
         => LET S == {r \in OldIds : Old(r).status = PENDING /\ Old(r).expires_at < now}
            IN  /\ reservations = prev.reservations
                /\ IF S = {}
                     THEN /\ response.handler = p /\ response.code = "OK"
                          /\ response.expired_count = 0
                          /\ response.expired_reservation_ids = {}
                     ELSE pc[p] = "sw_update" /\ req[p].ids = S
  /\ \A p \in Procs :
       Stepped(p, "sw_update")
         => LET S == prev.req[p].ids
            IN  /\ response.handler = p /\ response.op = "sweep"
                /\ response.code = "OK" /\ response.http = 200
                /\ response.expired_reservation_ids = S
                /\ response.expired_count = Cardinality(S)
                /\ \A r \in OldIds :
                     IF r \in S
                       THEN /\ Old(r).status = PENDING
                            /\ reservations[r] = [Old(r) EXCEPT !.status = EXPIRED]
                       ELSE reservations[r] = Old(r)
                /\ Len(reservations) = Len(prev.reservations)
                /\ \A i \in 1..Len(items) :
                     StatusAvailable(reservations, i)
                       = StatusAvailable(prev.reservations, i)
                           + SumQuantity(prev.reservations,
                                         {r \in S : Old(r).item_id = i})
  /\ (response.op = "status" /\ response.code = "OK")
       => /\ response.total_quantity = items[response.arg].total_quantity
          /\ response.reserved_quantity
               = SumQuantity(reservations, PendingIds(reservations, response.arg))
          /\ response.confirmed_quantity = ConfirmedQuantity(reservations, response.arg)
          /\ response.available = StatusAvailable(reservations, response.arg)
          /\ reservations = prev.reservations

\* C16 witness: after a sweep expired the only reservation of an item, a
\* status report on the item returned its whole total_quantity as available
C16_Witness ==
  /\ response.op = "status" /\ response.code = "OK"
  /\ response.available = response.total_quantity
  /\ \E r \in 1..Len(reservations) :
       reservations[r].item_id = response.arg /\ reservations[r].status = EXPIRED

\* C17: a reservation id appears in the result of exactly one sweep: a sweep
\* that returns an id has not been preceded by a sweep that expired (and
\* returned) it, and no other sweep in progress holds the id to return it.
C17_SweptExactlyOnce ==
  response.op = "sweep"
    => \A r \in response.expired_reservation_ids :
         /\ Old(r).status # EXPIRED
         /\ \A q \in Procs \ {response.handler} :
              ~(pc[q] = "sw_update" /\ r \in req[q].ids)

\* C18: when a sweep returns, every id in expired_reservation_ids has status
\* EXPIRED and expired_count is the number of reservations this sweep moved
\* from PENDING to EXPIRED.
C18_SweepResultExact ==
  response.op = "sweep"
    => /\ \A r \in response.expired_reservation_ids :
            reservations[r].status = EXPIRED
       /\ response.expired_count =
            Cardinality({r \in OldIds : /\ Old(r).status = PENDING
                                        /\ reservations[r].status = EXPIRED})

\* C19: for every reservation, confirmed_at is non-null exactly when the
\* status is CONFIRMED and cancelled_at is non-null exactly when the status
\* is CANCELLED; so at most one of them is non-null and both are null while
\* the status is PENDING or EXPIRED.
C19_TimestampInvariant ==
  \A r \in 1..Len(reservations) :
    LET row == reservations[r]
    IN  /\ row.status \in ReservationStatus
        /\ (row.confirmed_at # NULL) <=> (row.status = CONFIRMED)
        /\ (row.cancelled_at # NULL) <=> (row.status = CANCELLED)
        /\ ~(row.confirmed_at # NULL /\ row.cancelled_at # NULL)
        /\ row.status \in {PENDING, EXPIRED}
             => row.confirmed_at = NULL /\ row.cancelled_at = NULL

\* C19 witness: one reservation has been confirmed, another cancelled, and a
\* sweep has run over them
C19_Witness ==
  /\ Len(reservations) = 2
  /\ \E r \in 1..2 : reservations[r].status = CONFIRMED /\ reservations[r].confirmed_at # NULL
  /\ \E r \in 1..2 : reservations[r].status = CANCELLED /\ reservations[r].cancelled_at # NULL
  /\ response.op = "sweep"

\* C20: an operation whose store call fails ends at that step with
\* DATABASE_ERROR (500): its handler is idle with no store call left, and
\* the failing step changed no row; every step that changes a reservation
\* row ends its operation with success, so an operation that ends with
\* DATABASE_ERROR has applied no write at any earlier step either.
C20_StoreErrorEndsOperation ==
  /\ response.code = "DATABASE_ERROR"
       => LET h == response.handler
          IN  /\ h \in Procs
              /\ response.http = 500
              /\ response.op \in {"create", "confirm", "cancel", "sweep", "status"}
              /\ prev.pc[h] # "idle" => response.op = prev.req[h].op
              /\ pc[h] = "idle" /\ req[h] = NoReq
              /\ reservations = prev.reservations /\ items = prev.items
  /\ reservations # prev.reservations
       => /\ response.code \in {"OK", "CREATED"}
          /\ response.handler \in Procs
          /\ pc[response.handler] = "idle"
  /\ items # prev.items => response = NoResult /\ pc = prev.pc

\* C20 witness: the bulk update of a sweep failed and the reservations the
\* sweep had selected are still PENDING
C20_Witness ==
  /\ response.op = "sweep" /\ response.code = "DATABASE_ERROR"
  /\ prev.pc[response.handler] = "sw_update"
  /\ prev.req[response.handler].ids # {}
  /\ \A r \in prev.req[response.handler].ids : reservations[r].status = PENDING

\* C21: in the program whose createReservation is one atomic step, for every
\* item the quantities of its live PENDING holds and of its CONFIRMED
\* reservations together never exceed total_quantity.
C21_AccountingWithAtomicCreate ==
  \A i \in 1..Len(items) :
    LET held == {r \in 1..Len(reservations) :
                   /\ reservations[r].item_id = i
                   /\ \/ reservations[r].status = CONFIRMED
                      \/ /\ reservations[r].status = PENDING
                         /\ reservations[r].expires_at > now}
    IN  SumQuantity(reservations, held) <= items[i].total_quantity

C25_SweepFrame ==
  /\ \A p \in Procs :
       Stepped(p, "sw_update")
         => /\ response.code = "OK"
            /\ Len(reservations) = Len(prev.reservations) /\ items = prev.items
            /\ \A r \in OldIds :
                 IF r \in prev.req[p].ids /\ Old(r).status = PENDING
                   THEN /\ reservations[r] = [Old(r) EXCEPT !.status = EXPIRED]
                        /\ Old(r).expires_at < now
                        /\ reservations[r].confirmed_at = NULL
                        /\ reservations[r].cancelled_at = NULL
                   ELSE reservations[r] = Old(r)
  /\ \A r \in OldIds :
       (reservations[r].status = EXPIRED /\ Old(r).status # EXPIRED)
         => /\ Old(r).status = PENDING
            /\ Old(r).expires_at < now
            /\ response.op = "sweep" /\ response.via = "write"
            /\ r \in response.expired_reservation_ids

\* C25 witness: a sweep's update ran over a selected row that had been
\* confirmed after the select, left it CONFIRMED and returned success
C25_Witness ==
  /\ response.op = "sweep" /\ response.via = "write" /\ response.code = "OK"
  /\ \E r \in response.expired_reservation_ids :
       /\ reservations[r].status = CONFIRMED
       /\ reservations[r].confirmed_at # NULL
       /\ reservations[r] = Old(r)

\* C26 (a status report with no request beside it): getItemStatus fails with
\* ITEM_NOT_FOUND (404) for an item that does not exist; otherwise it
\* returns total_quantity, reserved_quantity = the quantities of all PENDING
\* reservations of the item whatever their expires_at, confirmed_quantity =
\* the quantities of its CONFIRMED reservations, and available_quantity =
\* total_quantity - reserved_quantity - confirmed_quantity; no step of it
\* writes.
C26_ItemStatus ==
  /\ \A p \in Procs, i \in ItemIds :
       Called(p, "status", i)
         => /\ reservations = prev.reservations /\ items = prev.items
            /\ IF ItemExistsIn(prev.items, i)
                 THEN pc[p] = "st_pending" /\ response = NoResult
                 ELSE /\ response.handler = p
                      /\ response.code = "ITEM_NOT_FOUND" /\ response.http = 404
  /\ \A p \in Procs :
       (Stepped(p, "st_pending") \/ Stepped(p, "st_confirmed"))
         => reservations = prev.reservations /\ items = prev.items
  /\ \A p \in Procs :
       Stepped(p, "st_confirmed")
         => LET i == prev.req[p].arg
                reserved  == SumQuantity(reservations,
                               {r \in 1..Len(reservations) :
                                  /\ reservations[r].item_id = i
                                  /\ reservations[r].status = PENDING})
                confirmed == SumQuantity(reservations,
                               {r \in 1..Len(reservations) :
                                  /\ reservations[r].item_id = i
                                  /\ reservations[r].status = CONFIRMED})
            IN  /\ response.handler = p /\ response.op = "status"
                /\ response.arg = i
                /\ response.code = "OK" /\ response.http = 200
                /\ response.total_quantity = items[i].total_quantity
                /\ response.reserved_quantity = reserved
                /\ response.confirmed_quantity = confirmed
                /\ response.available = items[i].total_quantity - reserved - confirmed

\* C26 witness: a status report counted as reserved a PENDING reservation
\* whose expires_at is before the clock
C26_Witness ==
  /\ response.op = "status" /\ response.code = "OK"
  /\ response.reserved_quantity > 0
  /\ \A r \in 1..Len(reservations) :
       (reservations[r].item_id = response.arg /\ reservations[r].status = PENDING)
         => reservations[r].expires_at < now

\* C27 (a create with no request beside it): the availability the admission
\* check uses is total_quantity less the quantities of the item's PENDING
\* reservations with expires_at after the clock value the pending query was
\* built with, less the quantities of its CONFIRMED reservations; and that
\* is the available amount a rejection reports.
C27_AdmissionAvailability ==
  \A p \in Procs :
    Stepped(p, "cr_confirmed")
      => LET i == prev.req[p].arg
             t == prev.req[p].qnow
             live      == {r \in 1..Len(reservations) :
                             /\ reservations[r].item_id = i
                             /\ reservations[r].status = PENDING
                             /\ reservations[r].expires_at > t}
             confirmed == {r \in 1..Len(reservations) :
                             /\ reservations[r].item_id = i
                             /\ reservations[r].status = CONFIRMED}
             available == items[i].total_quantity
                            - SumQuantity(reservations, live)
                            - SumQuantity(reservations, confirmed)
         IN  /\ t <= now
             /\ AdmissionAvailable(p) = available
             /\ IF available < prev.req[p].qty
                  THEN /\ response.code = "INSUFFICIENT_QUANTITY"
                       /\ response.available = available
                  ELSE pc[p] = "cr_insert"

\* C27 witness: an admission check counted nothing for a reservation of the
\* item that is PENDING with expires_at equal to the clock of the pending
\* query, and admitted a create for the item's whole total_quantity
C27_Witness ==
  \E p \in Procs :
    /\ Stepped(p, "cr_confirmed") /\ pc[p] = "cr_insert"
    /\ req[p].qty = items[req[p].arg].total_quantity
    /\ \E r \in 1..Len(reservations) :
         /\ reservations[r].item_id = req[p].arg
         /\ reservations[r].status = PENDING
         /\ reservations[r].expires_at = req[p].qnow

\* C28: every reservation has expires_at = created_at + the reservation
\* window.  The code computes expires_at from the application clock before
\* the insert and the store stamps created_at at the insert, so the clock
\* can advance in between: the formula is violated.
C28_ExpiryIsCreationPlusWindow ==
  \A r \in 1..Len(reservations) :
    reservations[r].expires_at
      = reservations[r].created_at + RESERVATION_EXPIRY_MINUTES

\* C29: no step changes an item's total_quantity or a reservation's item_id,
\* customer_id, quantity, created_at or expires_at, and no step deletes an
\* item or a reservation; rows are only added, one at a time, by the create
\* operations.
C29_CreationFieldsFrame ==
  /\ Len(items) >= Len(prev.items)
  /\ \A i \in 1..Len(prev.items) :
       items[i].total_quantity = prev.items[i].total_quantity
  /\ Len(reservations) >= Len(prev.reservations)
  /\ \A r \in OldIds :
       /\ reservations[r].item_id     = Old(r).item_id
       /\ reservations[r].customer_id = Old(r).customer_id
       /\ reservations[r].quantity    = Old(r).quantity
       /\ reservations[r].created_at  = Old(r).created_at
       /\ reservations[r].expires_at  = Old(r).expires_at
  /\ Len(reservations) # Len(prev.reservations)
       => /\ Len(reservations) = Len(prev.reservations) + 1
          /\ response.op = "create" /\ response.code = "CREATED"
          /\ items = prev.items
  /\ Len(items) # Len(prev.items)
       => /\ Len(items) = Len(prev.items) + 1
          /\ reservations = prev.reservations

\* C29 witness: a cancel write has just changed a PENDING reservation of
\* positive quantity while another reservation is CONFIRMED or EXPIRED
C29_Witness ==
  /\ response.op = "cancel" /\ response.via = "write"
  /\ \E r \in OldIds :
       /\ Old(r).status = PENDING /\ Old(r).quantity > 0
       /\ reservations[r].status = CANCELLED
       /\ \E r2 \in OldIds \ {r} : reservations[r2].status \in {CONFIRMED, EXPIRED}

\* the availability an admission check at clock value t computes for item i
\* from the tables its and tbl
AvailabilityAt(its, tbl, i, t) ==
  its[i].total_quantity
    - SumQuantity(tbl, {r \in 1..Len(tbl) :
                          /\ tbl[r].item_id = i /\ tbl[r].status = PENDING
                          /\ tbl[r].expires_at > t})
    - SumQuantity(tbl, {r \in 1..Len(tbl) :
                          /\ tbl[r].item_id = i /\ tbl[r].status = CONFIRMED})

C31_ConfirmOnlyCountedHolds ==
  \A p \in Procs :
    (/\ Stepped(p, "cf_update")
     /\ response.op = "confirm" /\ response.code = "OK" /\ response.via = "write")
      => Old(response.arg).expires_at > prev.req[p].stamp

\* C32: no confirm writes CONFIRMED to a reservation when the clock is past
\* its expires_at.  The conditional update is guarded by the status only, so
\* a confirm that passed its expiry check before the clock passed expires_at
\* still confirms: the formula is violated.
C32_NoConfirmWriteAfterExpiry ==
  \A p \in Procs :
    (/\ Stepped(p, "cf_update")
     /\ response.op = "confirm" /\ response.code = "OK" /\ response.via = "write")
      => now <= Old(response.arg).expires_at

\* C33: the available_quantity of a status report is between 0 and
\* total_quantity.  The report subtracts every PENDING row while the
\* admission check lets a new hold in beside a stale one, so the report goes
\* below 0 with no request beside it: the formula is violated.
C33_StatusAvailableInRange ==
  (response.op = "status" /\ response.code = "OK")
    => /\ 0 <= response.available
       /\ response.available <= response.total_quantity

\* C34: a confirm that fails with RESERVATION_EXPIRED leaves the reservation
\* EXPIRED, or PENDING past its expires_at.  The re-read after a missed
\* update throws RESERVATION_EXPIRED for every status but CONFIRMED, a
\* CANCELLED one included: the formula is violated.
C34_ExpiredCodeMeansExpired ==
  (response.op = "confirm" /\ response.code = "RESERVATION_EXPIRED")
    => LET row == reservations[response.arg]
       IN  \/ row.status = EXPIRED
           \/ row.status = PENDING /\ now > row.expires_at

\* C35: the reservation a successful cancel returns is CANCELLED with
\* cancelled_at set.  The re-read after a missed update returns an EXPIRED
\* row as success: the formula is violated.
C35_CancelSuccessIsCancelled ==
  (response.op = "cancel" /\ response.code = "OK")
    => /\ response.row.status = CANCELLED
       /\ response.row.cancelled_at # NULL

\* C36: when a cancel fails with RESERVATION_CONFIRMED, on the status switch
\* or on the re-read after a missed update, the reservation is CONFIRMED at
\* that step, and a CONFIRMED reservation stays CONFIRMED in every step.
C36_ConfirmedCodeMeansConfirmed ==
  /\ (response.op = "cancel" /\ response.code = "RESERVATION_CONFIRMED")
       => /\ response.http = 409
          /\ reservations[response.arg].status = CONFIRMED
          /\ reservations = prev.reservations
  /\ \A r \in OldIds :
       Old(r).status = CONFIRMED => reservations[r].status = CONFIRMED

\* C36 witness: a cancel that read the reservation PENDING lost to a confirm
\* and failed with RESERVATION_CONFIRMED on its re-read
C36_Witness ==
  \E p \in Procs :
    /\ Stepped(p, "cn_reread")
    /\ response.op = "cancel" /\ response.code = "RESERVATION_CONFIRMED"
    /\ response.via = "reread"
    /\ reservations[response.arg].status = CONFIRMED

\* the quantities of all reservation rows of item i, whatever their status
AllQuantity(tbl, i) ==
  SumQuantity(tbl, {r \in 1..Len(tbl) : tbl[r].item_id = i})

\* C37: a create fails with INSUFFICIENT_QUANTITY only if the item's true
\* availability was below the requested quantity at some instant of the
\* call.  Rows are never deleted and quantities never change, so the true
\* availability at every instant of the call is at least total_quantity
\* less the quantities of all rows present at its end: a rejection while
\* that bound covers the request contradicts the claim.  A hold confirmed
\* between the PENDING query and the CONFIRMED query is subtracted twice:
\* the formula is violated.
C37_InsufficientOnlyWhenShort ==
  \A p \in Procs :
    (/\ Stepped(p, "cr_confirmed")
     /\ response.op = "create" /\ response.code = "INSUFFICIENT_QUANTITY")
      => items[response.arg].total_quantity
           - AllQuantity(reservations, response.arg) < response.qty

\* C38: reserved_quantity and confirmed_quantity of one status report are
\* the item's PENDING and CONFIRMED sums at one instant of the call.  At any
\* one instant a row is in at most one of the two sums, so together they
\* are at most the quantities of all rows present at the end of the call.
\* A hold confirmed between the two queries is in both: the formula is
\* violated.
C38_StatusSumsAtOneInstant ==
  \A p \in Procs :
    (/\ Stepped(p, "st_confirmed")
     /\ response.op = "status" /\ response.code = "OK")
      => response.reserved_quantity + response.confirmed_quantity
           <= AllQuantity(reservations, response.arg)

====
